---- MODULE Spec2Model ----
(***************************************************************************)
(* Model of stride/utils/fft.py: magnitude_spectrum, phase_spectrum and    *)
(* bandwidth.                                                              *)
(*                                                                         *)
(* The three functions are pure.  Init draws one call's inputs (signal,    *)
(* dt) from bounded sets; each action applies one function to them and     *)
(* records what it returned or that it raised.                             *)
(*                                                                         *)
(* Representation of numbers.                                              *)
(*  - A signal is held as the vector of its forward-normalised DFT bins    *)
(*    (np.fft.fft is a library primitive and a bijection between signals   *)
(*    and bin vectors, so drawing the bins draws the signal).  A bin is a  *)
(*    complex number [re, im] with integer parts.                          *)
(*  - A frequency is the exact fraction n/d with a tag for the Python type *)
(*    of the value (np.float64 entry of the axis, or a plain int).         *)
(*  - A decibel value is an integer number of thousandths of a dB.         *)
(*  - A phase is an integer number of quarter-pi radians.                  *)
(* numpy's slicing, broadcasting and assignment rules are modelled with    *)
(* the shapes they act on, so that a shape mismatch raises as it does in   *)
(* numpy.                                                                  *)
(***************************************************************************)
EXTENDS Integers, Sequences, FiniteSets, TLC

VARIABLES pc, signal, dt, op, db, cutoff, ret

vars == <<pc, signal, dt, op, db, cutoff, ret>>

(* ---------------------------- bounds ----------------------------------- *)

\* longest 1-D signal
MaxNum == 5
\* most rows of a 2-D (batched) signal
MaxBatch == 2
\* longest row of a 2-D (batched) signal
MaxBatchNum == 2
\* largest sampling interval
MaxDt == 2

(* ---------------------------- input values ----------------------------- *)

Cplx(r, i) == [re |-> r, im |-> i]

\* DFT bin values of 1-D signals: 0, 1, 2i, -3
BinValues == {Cplx(0, 0), Cplx(1, 0), Cplx(0, 2), Cplx(-3, 0)}

\* DFT bin values of the rows of 2-D signals
BatchBinValues == {Cplx(0, 0), Cplx(0, 2), Cplx(-3, 0)}

\* default of bandwidth's cutoff parameter, in thousandths of a dB
CutoffDefault == -10000

\* cutoffs tried: the default, the level of a bin at half the peak, and 0 dB
Cutoffs == {CutoffDefault, -6021, 0}

Signals1D == UNION {[1..n -> BinValues] : n \in 1..MaxNum}

Rows(n) == [1..n -> BatchBinValues]

Signals2D == UNION {[1..b -> Rows(n)] : b \in 1..MaxBatch, n \in 1..MaxBatchNum}

(* ---------------------------- numpy helpers ---------------------------- *)

Min(a, b) == IF a < b THEN a ELSE b

Max(a, b) == IF a > b THEN a ELSE b

\* a slice bound as Python normalises it against a length
PyIndex(i, len) == IF i < 0 THEN Max(i + len, 0) ELSE Min(i, len)

\* s[start:stop] (0-based, stop exclusive)
PySlice(s, start, stop) ==
    LET a == PyIndex(start, Len(s))
        b == PyIndex(stop, Len(s))
    IN  IF a >= b THEN <<>> ELSE SubSeq(s, a + 1, b)

\* s[::-1]
Reverse(s) == [k \in 1..Len(s) |-> s[Len(s) + 1 - k]]

\* integer square root
ISqrt(n) == CHOOSE r \in 0..n : r * r <= n /\ (r + 1) * (r + 1) > n

\* np.abs of one complex number (exact on the bin values used)
Abs(z) == ISqrt(z.re * z.re + z.im * z.im)

\* np.abs of a 1-D array
AbsAll(s) == [k \in 1..Len(s) |-> Abs(s[k])]

\* np.angle of one complex number: atan2(im, re) in quarter-pi radians,
\* for numbers on the axes and the diagonals
Angle(z) ==
    CASE z.im = 0 /\ z.re >= 0 -> 0
      [] z.im = 0 /\ z.re < 0 -> 4
      [] z.re = 0 /\ z.im > 0 -> 2
      [] z.re = 0 /\ z.im < 0 -> -2
      [] z.re = z.im /\ z.re > 0 -> 1
      [] z.re = z.im /\ z.re < 0 -> -3
      [] z.re = -z.im /\ z.re < 0 -> 3
      [] z.re = -z.im /\ z.re > 0 -> -1

\* np.fft.fft(x, norm=...) of the signal whose forward-normalised bins are X
Fft(X, norm) ==
    IF norm = "forward" THEN X
    ELSE [k \in 1..Len(X) |-> Cplx(Len(X) * X[k].re, Len(X) * X[k].im)]

\* np.fft.fftfreq(num, dt): [0, 1, ..., (num-1)//2, -(num//2), ..., -1] / (dt*num)
FftFreq(num, d) ==
    [k \in 1..num |->
        [n |-> IF k - 1 <= (num - 1) \div 2 THEN k - 1 ELSE (k - 1) - num,
         d |-> num * d,
         kind |-> "float64"]]

\* a plain Python int used where a frequency is expected
PyInt(i) == [n |-> i, d |-> 1, kind |-> "int"]

\* np.max of a non-empty 1-D array
NpMax(s) == CHOOSE v \in {s[k] : k \in 1..Len(s)} : \A j \in 1..Len(s) : s[j] <= v

\* np.argmax of a non-empty 1-D array: 0-based index of the first maximum
NpArgmax(s) ==
    (CHOOSE i \in 1..Len(s) :
        /\ s[i] = NpMax(s)
        /\ \A j \in 1..(i - 1) : s[j] < s[i]) - 1

\* 20*log10(v + 1e-31) in thousandths of a dB, for an integer magnitude v.
\* v + 1e-31 is v itself for v >= 1 in float64 and 1e-31 for v = 0.  The
\* table is additive over products, so equal ratios have equal levels.
Log20(v) ==
    CASE v = 0 -> -620000
      [] v = 1 -> 0
      [] v = 2 -> 6021
      [] v = 3 -> 9542
      [] v = 4 -> 12042
      [] v = 5 -> 13979
      [] v = 6 -> 15563
      [] v = 7 -> 16902
      [] v = 8 -> 18063

\* 20 * np.log10((v + 1e-31) / (m + 1e-31))
Decibel(v, m) == Log20(v) - Log20(m)

\* a + b of two 1-D arrays under numpy broadcasting
BroadcastAdd(a, b) ==
    IF Len(a) = Len(b)
    THEN [raised |-> FALSE, val |-> [k \in 1..Len(a) |-> a[k] + b[k]]]
    ELSE IF Len(a) = 1
    THEN [raised |-> FALSE, val |-> [k \in 1..Len(b) |-> a[1] + b[k]]]
    ELSE IF Len(b) = 1
    THEN [raised |-> FALSE, val |-> [k \in 1..Len(a) |-> a[k] + b[1]]]
    ELSE [raised |-> TRUE, val |-> <<>>]

\* target[:] = value for 1-D arrays: the lengths agree or value has length 1
AssignOk(targetLen, value) == Len(value) = targetLen \/ Len(value) = 1

Assigned(targetLen, value) ==
    [k \in 1..targetLen |-> IF Len(value) = targetLen THEN value[k] ELSE value[1]]

(* ---------------------------- results ---------------------------------- *)

Raised == [raised |-> TRUE, ndim |-> 0, freqs |-> <<>>, spectrum |-> <<>>]

Returned(nd, f, s) == [raised |-> FALSE, ndim |-> nd, freqs |-> f, spectrum |-> s]

(* ---------------------------- magnitude_spectrum ----------------------- *)

\* num_freqs of magnitude_spectrum
NumFreqs(num) == (num + 1) \div 2

\* the db branch without the division by the maximum
ToDecibelUnnormalised(signal_fft) ==
    [k \in 1..Len(signal_fft) |-> Log20(signal_fft[k])]

\* the db branch on a 1-D array
ToDecibel(signal_fft) ==
    [k \in 1..Len(signal_fft) |-> Decibel(signal_fft[k], NpMax(signal_fft))]

\* magnitude_spectrum on a 1-D signal
magnitude_spectrum_1d(X, d, db_) ==
    LET num == Len(X)
        num_freqs == NumFreqs(num)
        freqs == PySlice(FftFreq(num, d), 0, num_freqs)
        fft_components == Fft(X, "forward")
        zero_freq_fft == Abs(fft_components[1])
        pos_freq_fft == AbsAll(PySlice(fft_components, 1, num_freqs))
        neg_freq_fft == AbsAll(PySlice(fft_components, -num_freqs + 1, num))
        sum == BroadcastAdd(pos_freq_fft, Reverse(neg_freq_fft))
    IN  IF sum.raised \/ ~AssignOk(num_freqs - 1, sum.val) THEN Raised
        ELSE LET signal_fft == <<zero_freq_fft>> \o Assigned(num_freqs - 1, sum.val)
             IN  Returned(1, freqs, IF db_ THEN ToDecibel(signal_fft) ELSE signal_fft)

\* magnitude_spectrum on a 2-D signal (rows are signals).  coerce says
\* whether this numpy build still converts an array of one element to a
\* scalar on element assignment (deprecated since NumPy 1.25).
magnitude_spectrum_2d(Xs, d, db_, coerce) ==
    LET num == Len(Xs[1])
        num_freqs == NumFreqs(num)
        freqs == PySlice(FftFreq(num, d), 0, num_freqs)
        fft_components == [b \in 1..Len(Xs) |-> Fft(Xs[b], "forward")]
        \* fft_components[0] is row 0, an array of shape (num,)
        zero_freq_fft == AbsAll(fft_components[1])
        \* the slices select rows: shapes (p, num) and (q, num)
        pos_freq_fft == PySlice(fft_components, 1, num_freqs)
        neg_freq_fft == PySlice(fft_components, -num_freqs + 1, Len(Xs))
        p == Len(pos_freq_fft)
        q == Len(neg_freq_fft)
        \* signal_fft[0] = zero_freq_fft: an element set from an array
        elem_ok == num = 1 /\ coerce
        \* pos_freq_fft + neg_freq_fft[::-1]
        rows_ok == p = q \/ p = 1 \/ q = 1
        r == IF p = q THEN p ELSE IF p = 1 THEN q ELSE p
        \* signal_fft[1:] = <shape (r, num)>: assignment strips leading
        \* dimensions of size 1, then broadcasts
        assign_ok == r = 1 /\ (num = num_freqs - 1 \/ num = 1)
    IN  IF ~(elem_ok /\ rows_ok /\ assign_ok) THEN Raised
        ELSE LET row == [c \in 1..num |->
                            Abs(pos_freq_fft[1][c]) + Abs(Reverse(neg_freq_fft)[1][c])]
                 signal_fft == <<zero_freq_fft[1]>> \o Assigned(num_freqs - 1, row)
             IN  Returned(1, freqs, IF db_ THEN ToDecibel(signal_fft) ELSE signal_fft)

magnitude_spectrum(sig, d, db_, coerce) ==
    IF sig.ndim = 1 THEN magnitude_spectrum_1d(sig.X, d, db_)
    ELSE magnitude_spectrum_2d(sig.X, d, db_, coerce)

(* ---------------------------- phase_spectrum --------------------------- *)

\* num_freqs with the odd lengths rounded down
PhaseNumFreqsOddDropped(num) == num \div 2

\* num_freqs of phase_spectrum
PhaseNumFreqs(num) == IF num % 2 = 0 THEN num \div 2 ELSE (num + 1) \div 2

\* the phase of the first num_freqs raw bins of one signal
PhaseRow(X, num_freqs) ==
    LET signal_fft == Fft(X, "backward")
    IN  [k \in 1..num_freqs |-> Angle(signal_fft[k])]

phase_spectrum(sig, d) ==
    LET num == IF sig.ndim = 1 THEN Len(sig.X) ELSE Len(sig.X[1])
        num_freqs == PhaseNumFreqs(num)
        freqs == PySlice(FftFreq(num, d), 0, num_freqs)
    IN  IF num_freqs > num THEN Raised
        ELSE IF sig.ndim = 1 THEN Returned(1, freqs, PhaseRow(sig.X, num_freqs))
        ELSE Returned(2, freqs,
                      [b \in 1..Len(sig.X) |-> PhaseRow(sig.X[b], num_freqs)])

(* ---------------------------- bandwidth -------------------------------- *)

RECURSIVE ColumnSum(_, _, _)
ColumnSum(rows, c, b) ==
    IF b = 0 THEN 0 ELSE rows[b][c] + ColumnSum(rows, c, b - 1)

\* np.mean(a, axis=0) of a 2-D array, in the fixed-point unit of its entries
Mean0(rows) ==
    [c \in 1..Len(rows[1]) |-> ColumnSum(rows, c, Len(rows)) \div Len(rows)]

\* the test of the scan loops with >= for >
ExceedsOrEquals(v, cutoff_) == v >= cutoff_

\* the test of both scan loops
Exceeds(v, cutoff_) == v > cutoff_

\* for f in range(num_freqs): the first f whose bin exceeds the cutoff,
\* -1 when the loop ends without break
RECURSIVE ScanUp(_, _, _)
ScanUp(signal_fft, cutoff_, f) ==
    IF f >= Len(signal_fft) THEN -1
    ELSE IF Exceeds(signal_fft[f + 1], cutoff_) THEN f
    ELSE ScanUp(signal_fft, cutoff_, f + 1)

\* for f in reversed(range(num_freqs)): likewise from the top
RECURSIVE ScanDown(_, _, _)
ScanDown(signal_fft, cutoff_, f) ==
    IF f < 0 THEN -1
    ELSE IF Exceeds(signal_fft[f + 1], cutoff_) THEN f
    ELSE ScanDown(signal_fft, cutoff_, f - 1)

\* f_min before the scan
FMinDefault == PyInt(0)

\* f_max before the scan set to the last bin index
FMaxDefaultLastIndex(num_freqs) == PyInt(num_freqs - 1)

\* f_max before the scan
FMaxDefault(num_freqs) == PyInt(num_freqs)

RaisedBandwidth ==
    [raised |-> TRUE, f_min |-> PyInt(0), f_centre |-> PyInt(0), f_max |-> PyInt(0),
     min_break |-> FALSE, max_break |-> FALSE]

bandwidth(sig, d, cutoff_, coerce) ==
    LET m == magnitude_spectrum(sig, d, TRUE, coerce)
    IN  IF m.raised THEN RaisedBandwidth
        ELSE LET signal_fft == IF m.ndim > 1 THEN Mean0(m.spectrum) ELSE m.spectrum
                 num_freqs == Len(signal_fft)
                 lo == ScanUp(signal_fft, cutoff_, 0)
                 hi == ScanDown(signal_fft, cutoff_, num_freqs - 1)
             IN  [raised |-> FALSE,
                  f_min |-> IF lo = -1 THEN FMinDefault ELSE m.freqs[lo + 1],
                  f_centre |-> m.freqs[NpArgmax(signal_fft) + 1],
                  f_max |-> IF hi = -1 THEN FMaxDefault(num_freqs) ELSE m.freqs[hi + 1],
                  min_break |-> lo # -1,
                  max_break |-> hi # -1]

(* ---------------------------- state machine ---------------------------- *)

NoResult == [raised |-> FALSE, ndim |-> 0, freqs |-> <<>>, spectrum |-> <<>>]

Init ==
    /\ pc = "call"
    /\ signal \in [ndim : {1}, X : Signals1D] \cup [ndim : {2}, X : Signals2D]
    /\ dt \in 1..MaxDt
    /\ op = "none"
    /\ db = TRUE
    /\ cutoff = CutoffDefault
    /\ ret = NoResult

CallMagnitudeSpectrum ==
    /\ pc = "call"
    /\ \E db_ \in BOOLEAN, coerce \in BOOLEAN :
        /\ db' = db_
        /\ ret' = magnitude_spectrum(signal, dt, db_, coerce)
    /\ op' = "magnitude_spectrum"
    /\ pc' = "done"
    /\ UNCHANGED <<signal, dt, cutoff>>

CallPhaseSpectrum ==
    /\ pc = "call"
    /\ ret' = phase_spectrum(signal, dt)
    /\ op' = "phase_spectrum"
    /\ pc' = "done"
    /\ UNCHANGED <<signal, dt, db, cutoff>>

CallBandwidth ==
    /\ pc = "call"
    /\ \E cutoff_ \in Cutoffs, coerce \in BOOLEAN :
        /\ cutoff' = cutoff_
        /\ ret' = bandwidth(signal, dt, cutoff_, coerce)
    /\ op' = "bandwidth"
    /\ pc' = "done"
    /\ UNCHANGED <<signal, dt, db>>

Next == CallMagnitudeSpectrum \/ CallPhaseSpectrum \/ CallBandwidth

Spec == Init /\ [][Next]_vars

(* ---------------------------- claims ----------------------------------- *)

Done(o) == pc = "done" /\ op = o

\* order and equality of two frequencies n/d (d > 0)
FreqLeq(a, b) == a.n * b.d <= b.n * a.d

FreqLt(a, b) == a.n * b.d < b.n * a.d

FreqEq(a, b) == a.n * b.d = b.n * a.d

\* length of the signal's last axis
N == IF signal.ndim = 1 THEN Len(signal.X) ELSE Len(signal.X[1])

\* bin k (0-based) of a 1-D signal's DFT
Bin(k) == signal.X[k + 1]

\* |X[0]| for k = 0, |X[k]| + |X[N-k]| for k >= 1
Folded(k) == IF k = 0 THEN Abs(Bin(0)) ELSE Abs(Bin(k)) + Abs(Bin(N - k))

\* the bin count (N+1)//2
HalfUp == (N + 1) \div 2

\* the lowest bin index of greatest folded magnitude
PeakBin ==
    CHOOSE k \in 0..(HalfUp - 1) :
        /\ \A j \in 0..(HalfUp - 1) : Folded(j) <= Folded(k)
        /\ \A j \in 0..(k - 1) : Folded(j) < Folded(k)

\* what magnitude_spectrum(signal, dt, db=True) gives bandwidth
DbCall == magnitude_spectrum(signal, dt, TRUE, TRUE)

\* the bins (0-based) of the dB spectrum strictly above the cutoff
Above == {k \in 0..(Len(DbCall.spectrum) - 1) : DbCall.spectrum[k + 1] > cutoff}

Lowest(S) == CHOOSE k \in S : \A j \in S : k <= j

Highest(S) == CHOOSE k \in S : \A j \in S : j <= k

\* C1: on every 1-D signal of length N >= 1, magnitude_spectrum and
\* phase_spectrum return without raising, and the returned spectrum is as
\* long as the returned frequency axis.
C1_ReturnsWithMatchingLengths ==
    (pc = "done" /\ signal.ndim = 1 /\ op \in {"magnitude_spectrum", "phase_spectrum"})
        => /\ ~ret.raised
           /\ Len(ret.spectrum) = Len(ret.freqs)

\* C2: on a 2-D signal of shape (B, N), magnitude_spectrum and
\* phase_spectrum return a spectrum of B rows, each as long as the frequency
\* axis and equal to what the same function returns on that row alone.
C2_BatchInvariance ==
    (pc = "done" /\ signal.ndim = 2 /\ op \in {"magnitude_spectrum", "phase_spectrum"})
        => /\ ~ret.raised
           /\ ret.ndim = 2
           /\ Len(ret.spectrum) = Len(signal.X)
           /\ \A i \in 1..Len(signal.X) :
                LET row == [ndim |-> 1, X |-> signal.X[i]]
                    alone == IF op = "magnitude_spectrum"
                             THEN magnitude_spectrum(row, dt, db, TRUE)
                             ELSE phase_spectrum(row, dt)
                IN  /\ ~alone.raised
                    /\ Len(ret.spectrum[i]) = Len(ret.freqs)
                    /\ ret.spectrum[i] = alone.spectrum

\* The part of C2 about phase_spectrum: its result on a 2-D signal has one
\* row per signal, equal to its result on that signal alone.
C2_PhaseBatchInvariance ==
    (Done("phase_spectrum") /\ signal.ndim = 2)
        => /\ ~ret.raised
           /\ Len(ret.spectrum) = Len(signal.X)
           /\ \A i \in 1..Len(signal.X) :
                ret.spectrum[i] = phase_spectrum([ndim |-> 1, X |-> signal.X[i]], dt).spectrum

\* The entries of a returned linear magnitude spectrum: |X[0]|, then
\* |X[k]| + |X[N-k]|.
FoldPairsMirroredBins ==
    /\ Len(ret.spectrum) = HalfUp
    /\ ret.spectrum[1] = Abs(Bin(0))
    /\ \A k \in 1..(HalfUp - 1) : ret.spectrum[k + 1] = Abs(Bin(k)) + Abs(Bin(N - k))

\* C3: on a 1-D signal with db=False, magnitude_spectrum returns entry 0
\* equal to |X[0]| and entry k equal to |X[k]| + |X[N-k]| for every k in
\* 1..(N+1)//2 - 1.
C3_FoldPairsMirroredBins ==
    (Done("magnitude_spectrum") /\ signal.ndim = 1 /\ ~db)
        => ~ret.raised /\ FoldPairsMirroredBins

\* C3 on the calls that return: the fold pairs bin k with bin N-k.
C3_FoldOnReturn ==
    (Done("magnitude_spectrum") /\ signal.ndim = 1 /\ ~db /\ ~ret.raised)
        => FoldPairsMirroredBins

\* A returned frequency axis: (N+1)//2 entries k/(N*dt), k = 0, 1, ...,
\* starting at 0, non-negative and strictly ascending.
FrequencyAxis ==
    /\ Len(ret.freqs) = HalfUp
    /\ ret.freqs[1].n = 0
    /\ \A k \in 0..(HalfUp - 1) :
        /\ FreqEq(ret.freqs[k + 1], [n |-> k, d |-> N * dt])
        /\ ret.freqs[k + 1].n >= 0
    /\ \A k \in 1..(HalfUp - 1) : FreqLt(ret.freqs[k], ret.freqs[k + 1])

\* C4: for every N >= 1 and dt > 0 the frequency axis magnitude_spectrum
\* returns is strictly ascending, starts at 0, holds the frequencies
\* k/(N*dt) and has (N+1)//2 entries.
C4_FrequencyAxis ==
    (Done("magnitude_spectrum") /\ signal.ndim = 1)
        => ~ret.raised /\ FrequencyAxis

\* C4 on the calls that return.
C4_FrequencyAxisOnReturn ==
    (Done("magnitude_spectrum") /\ signal.ndim = 1 /\ ~ret.raised) => FrequencyAxis

\* A returned dB spectrum: no value above 0, and 0 exactly at the bins of
\* greatest folded magnitude (at every bin when all magnitudes are 0).
PeakAtZeroDecibel ==
    /\ \A k \in 1..Len(ret.spectrum) : ret.spectrum[k] <= 0
    /\ \E k \in 1..Len(ret.spectrum) : ret.spectrum[k] = 0
    /\ \A k \in 0..(HalfUp - 1) :
        ret.spectrum[k + 1] = 0 <=> Folded(k) = Folded(PeakBin)

\* C5: with db=True the spectrum magnitude_spectrum returns for a 1-D signal
\* has every value <= 0 and maximum exactly 0, at the bins of greatest
\* folded magnitude, also when every magnitude is 0.
C5_PeakAtZeroDecibel ==
    (Done("magnitude_spectrum") /\ signal.ndim = 1 /\ db)
        => ~ret.raised /\ PeakAtZeroDecibel

\* C5 on the calls that return.
C5_PeakAtZeroDecibelOnReturn ==
    (Done("magnitude_spectrum") /\ signal.ndim = 1 /\ db /\ ~ret.raised)
        => PeakAtZeroDecibel

\* C6: phase_spectrum on a 1-D signal of length N returns a frequency axis
\* and a phase array of N//2 entries for even N and (N+1)//2 for odd N, and
\* entry k is the angle of DFT bin k alone.
C6_PhaseOfRawBins ==
    (Done("phase_spectrum") /\ signal.ndim = 1)
        => LET want == IF N % 2 = 0 THEN N \div 2 ELSE (N + 1) \div 2
           IN  /\ ~ret.raised
               /\ Len(ret.freqs) = want
               /\ Len(ret.spectrum) = want
               /\ \A k \in 0..(want - 1) : ret.spectrum[k + 1] = Angle(Bin(k))

\* C6 happens: an even-length signal whose bins 1 and N-1 differ in phase
\* and in magnitude.
C6_Witness ==
    /\ Done("phase_spectrum") /\ signal.ndim = 1 /\ N = 4
    /\ Bin(0) = Cplx(-3, 0) /\ Bin(1) = Cplx(0, 2) /\ Bin(3) = Cplx(1, 0)
    /\ ret.spectrum = <<4, 2>>

\* What bandwidth returns when it returns on a 1-D signal: the edges around
\* the centre, and the centre at the lowest bin of greatest magnitude.
EdgesAroundPeak ==
    /\ FreqLeq(ret.f_min, ret.f_centre)
    /\ FreqLeq(ret.f_centre, ret.f_max)
    /\ FreqEq(ret.f_centre, [n |-> PeakBin, d |-> N * dt])

\* C7: bandwidth on a 1-D signal with a cutoff < 0 returns
\* f_min <= f_centre <= f_max with f_centre the frequency of the lowest bin
\* of peak magnitude.
C7_EdgesAroundPeak ==
    (Done("bandwidth") /\ signal.ndim = 1 /\ cutoff < 0)
        => ~ret.raised /\ EdgesAroundPeak

\* C7 on the calls that return.
C7_EdgesAroundPeakOnReturn ==
    (Done("bandwidth") /\ signal.ndim = 1 /\ cutoff < 0 /\ ~ret.raised)
        => EdgesAroundPeak

C9_EdgesAtCutoffCrossings ==
    (Done("bandwidth") /\ signal.ndim = 1 /\ ~DbCall.raised /\ Above # {})
        => LET i == Lowest(Above)
               j == Highest(Above)
           IN  /\ ~ret.raised
               /\ ret.f_min = DbCall.freqs[i + 1]
               /\ ret.f_max = DbCall.freqs[j + 1]
               /\ DbCall.spectrum[i + 1] # cutoff
               /\ DbCall.spectrum[j + 1] # cutoff
               /\ \A k \in 0..(Len(DbCall.spectrum) - 1) :
                    (k < i \/ k > j) => DbCall.spectrum[k + 1] <= cutoff

\* C9 happens: bins equal to the cutoff lie below the lower edge and above
\* the upper edge, and are passed over.
C9_Witness ==
    /\ Done("bandwidth") /\ signal.ndim = 1 /\ ~ret.raised /\ Above # {}
    /\ \E k \in 0..(Lowest(Above) - 1) : DbCall.spectrum[k + 1] = cutoff
    /\ \E k \in (Highest(Above) + 1)..(Len(DbCall.spectrum) - 1) :
        DbCall.spectrum[k + 1] = cutoff

\* C10: on a 1-D signal on which magnitude_spectrum returns, with a
\* cutoff < 0, the peak of the dB spectrum is 0, both scans of bandwidth
\* end by break, and f_min, f_centre and f_max are entries of the frequency
\* axis.
C10_NoFallbackBelowZero ==
    (Done("bandwidth") /\ signal.ndim = 1 /\ ~DbCall.raised /\ cutoff < 0)
        => LET axis == {DbCall.freqs[k] : k \in 1..Len(DbCall.freqs)}
           IN  /\ ~ret.raised
               /\ NpMax(DbCall.spectrum) = 0
               /\ ret.min_break /\ ret.max_break
               /\ ret.f_min \in axis
               /\ ret.f_centre \in axis
               /\ ret.f_max \in axis

\* C10 happens: bins at both ends lie below the cutoff, so both scans pass
\* over bins before they break.
C10_Witness ==
    /\ Done("bandwidth") /\ signal.ndim = 1 /\ ~ret.raised /\ cutoff = CutoffDefault
    /\ DbCall.spectrum[1] < cutoff
    /\ DbCall.spectrum[Len(DbCall.spectrum)] < cutoff
    /\ ret.f_min.n > 0
    /\ FreqLt(ret.f_max, DbCall.freqs[Len(DbCall.freqs)])

====
